---- MODULE Spec2Model ----
(***************************************************************************)
(* Ownership model of the LibraryLink Utilities container wrappers.        *)
(*                                                                         *)
(* One host call is modelled: the host hands over an argument array of     *)
(* MTensor handles and one output slot (MArgumentManager), native code     *)
(* creates Tensor<T> wrappers (construct / wrap / move / clone), passes    *)
(* one of them as the result and destroys them.  The host side keeps, per  *)
(* handle, the storage and the number of free / disown calls it received.  *)
(***************************************************************************)
EXTENDS Integers, Sequences, FiniteSets, TLC

(* ------------------------------ bounds -------------------------------- *)
MaxWrappers == 2      \* wrapper objects created during the call
MaxHandles  == 4      \* foreign handles that exist (host arguments included)
MaxWrites   == 1      \* element writes performed during the call
MintBits    == 4      \* width of the signed index type mint

(* ----------------------------- universe ------------------------------- *)
NULL == 0             \* nullptr (Tensor.h: MTensor internalMT = nullptr)

WIds    == 1..MaxWrappers
Handles == 1..MaxHandles
Values  == {0, 1}
NoValue == "none"     \* an operation that returned no element value

\* element types T the wrapper template is instantiated for
NativeTypes == {"mint", "double"}

\* element types the constructors are instantiated for
CtorTypes == {"mint"}

\* dimension lists handed to the constructors (one of them invalid)
CtorDims == {<<2>>, <<0>>}

\* element ranges handed to Tensor(first, last, dims)
RangeSet == {<<1>>, <<0, 1>>}

\* largest coordinate handed to the element access
MaxCoord == 2

\* Tensor<T>::type : MTensor type tag matching template parameter T
type(T) ==
    CASE T = "mint"            -> "MType_Integer"
      [] T = "double"          -> "MType_Real"
      [] T = "complex<double>" -> "MType_Complex"
      [] OTHER                 -> "none"

\* RawArray<T>::type : MRawArray type tag matching template parameter T
rawArrayType(T) ==
    CASE T = "int8_t"          -> "MRawArray_Type_Bit8"
      [] T = "uint8_t"         -> "MRawArray_Type_Ubit8"
      [] T = "int16_t"         -> "MRawArray_Type_Bit16"
      [] T = "uint16_t"        -> "MRawArray_Type_Ubit16"
      [] T = "int32_t"         -> "MRawArray_Type_Bit32"
      [] T = "uint32_t"        -> "MRawArray_Type_Ubit32"
      [] T = "int64_t"         -> "MRawArray_Type_Bit64"
      [] T = "uint64_t"        -> "MRawArray_Type_Ubit64"
      [] T = "float"           -> "MRawArray_Type_Real32"
      [] T = "double"          -> "MRawArray_Type_Real64"
      [] T = "complex<float>"  -> "MRawArray_Type_Float_Complex"
      [] T = "complex<double>" -> "MRawArray_Type_Double_Complex"
      [] OTHER                 -> "none"

\* Image<T>::type : MImage type tag matching template parameter T
imageType(T) ==
    CASE T = "int8_t"   -> "MImage_Type_Bit"
      [] T = "uint8_t"  -> "MImage_Type_Bit8"
      [] T = "uint16_t" -> "MImage_Type_Bit16"
      [] T = "float"    -> "MImage_Type_Real32"
      [] T = "double"   -> "MImage_Type_Real"
      [] OTHER          -> "none"

\* the buffer variants and the type tag of an instantiation of each
Variants == {"Tensor", "RawArray", "Image"}

typeOf(variant, T) ==
    CASE variant = "Tensor"   -> type(T)
      [] variant = "RawArray" -> rawArrayType(T)
      [] variant = "Image"    -> imageType(T)

\* every native element type a wrapper template is instantiated for
AllNativeTypes ==
    {"mint", "int8_t", "uint8_t", "int16_t", "uint16_t", "int32_t", "uint32_t",
     "int64_t", "uint64_t", "float", "double", "complex<float>",
     "complex<double>"}

\* the type tags each variant supports
TensorTags   == {"MType_Integer", "MType_Real", "MType_Complex"}
RawArrayTags ==
    {"MRawArray_Type_Bit8", "MRawArray_Type_Ubit8", "MRawArray_Type_Bit16",
     "MRawArray_Type_Ubit16", "MRawArray_Type_Bit32", "MRawArray_Type_Ubit32",
     "MRawArray_Type_Bit64", "MRawArray_Type_Ubit64", "MRawArray_Type_Real32",
     "MRawArray_Type_Real64", "MRawArray_Type_Float_Complex",
     "MRawArray_Type_Double_Complex"}
ImageTags    ==
    {"MImage_Type_Bit", "MImage_Type_Bit8", "MImage_Type_Bit16",
     "MImage_Type_Real32", "MImage_Type_Real"}

LegalTags(variant) ==
    CASE variant = "Tensor"   -> TensorTags
      [] variant = "RawArray" -> RawArrayTags
      [] variant = "Image"    -> ImageTags

\* a tag of each variant's handle kind that the variant does not support
UndefTag(variant) ==
    CASE variant = "Tensor"   -> "MType_Undef"
      [] variant = "RawArray" -> "MRawArray_Type_Undef"
      [] variant = "Image"    -> "MImage_Type_Undef"

\* the tags a handle of the variant's kind can carry
KindTags(variant) == LegalTags(variant) \cup {UndefTag(variant)}

(* The argument array of the call: Args[i] is the handle in slot i.        *)
(* Slot 1 carries an integer tensor, slot 2 a real tensor of rank 2 that   *)
(* the host passed with the "Shared" convention (share count 1).           *)
Args == <<1, 2>>
Argc == Len(Args)

VARIABLES
    libData,      \* TRUE iff the WolframLibraryData pointer is installed
    host,         \* host side of each handle: state, type tag, shape, data
    shareCount,   \* host-side share count of each handle
    freeCalls,    \* number of MTensor_free calls received per handle (0 = nullptr)
    disownCalls,  \* number of MTensor_disown calls received per handle
    wr,           \* the wrapper objects
    res,          \* the output MArgument (handle written by passInternal)
    resLog,       \* handles that were ever written to the output slot
    cloneOf,      \* cloneOf[c] = wrapper c was copy-constructed from, or 0
    writes,       \* number of element writes so far
    stringArgs,   \* MArgumentManager::stringArgs: the cached copy of each text argument
    errors,       \* ErrorManager::errors(): the registered errors, oldest first
    nextErrorId,  \* ErrorManager::nextErrorId()
    last          \* the operation performed by the last step

vars == <<libData, host, shareCount, freeCalls, disownCalls, wr, res, resLog,
          cloneOf, writes, stringArgs, errors, nextErrorId, last>>

\* the state of the argument manager's string cache and of the error catalog
managerVars == <<stringArgs, errors, nextErrorId>>

\* the capability table, the host's storage and the wrappers of a call
callVars == <<libData, host, shareCount, freeCalls, disownCalls, wr, res,
              resLog, cloneOf, writes>>

\* a string cache in which no argument has been copied yet
NoStrings == [i \in 0..(Argc - 1) |-> NoValue]

(* --------------------------- error catalog ---------------------------- *)
\* ErrorCode::VersionError, the id the first registered error receives
VersionError == 7

\* the initializer list of ErrorManager::errors() (the grave accents of one
\* message are written as apostrophes)
BuiltinErrors == <<
    [name |-> "VersionError",
     message |-> "An error was caused by an incompatible function call. The library was compiled with a previous LibraryData version."],
    [name |-> "FunctionError",
     message |-> "An error occurred in the library function."],
    [name |-> "MemoryError",
     message |-> "An error was caused by failed memory allocation or insufficient memory."],
    [name |-> "NumericalError",
     message |-> "A numerical error was encountered."],
    [name |-> "DimensionsError",
     message |-> "An error caused by inconsistent dimensions or by exceeding array bounds."],
    [name |-> "RankError",
     message |-> "An error was caused by a tensor with an inconsistent rank."],
    [name |-> "TypeError",
     message |-> "An error caused by inconsistent types was encountered."],
    [name |-> "NoError",
     message |-> "No errors occurred."],
    [name |-> "LibDataError",
     message |-> "WolframLibraryData is not set. Make sure to call LibraryData::setLibraryData in WolframLibrary_initialize."],
    [name |-> "MArgumentIndexError",
     message |-> "An error was caused by an incorrect argument index."],
    [name |-> "MArgumentNumericArrayError",
     message |-> "An error was caused by a NumericArray argument."],
    [name |-> "MArgumentTensorError",
     message |-> "An error was caused by a Tensor argument."],
    [name |-> "MArgumentImageError",
     message |-> "An error was caused by an Image argument."],
    [name |-> "ErrorManagerThrowIdError",
     message |-> "An exception was thrown with a non-existent id."],
    [name |-> "ErrorManagerThrowNameError",
     message |-> "An exception was thrown with a non-existent name."],
    [name |-> "ErrorManagerCreateNameError",
     message |-> "An exception was registered with a name that already exists."],
    [name |-> "NumericArrayNewError",
     message |-> "Failed to create a new NumericArray."],
    [name |-> "NumericArrayCloneError",
     message |-> "Failed to clone NumericArray."],
    [name |-> "NumericArrayTypeError",
     message |-> "An error was caused by an NumericArray type mismatch."],
    [name |-> "NumericArraySizeError",
     message |-> "An error was caused by an incorrect NumericArray size."],
    [name |-> "NumericArrayIndexError",
     message |-> "An error was caused by attempting to access a nonexistent NumericArray element."],
    [name |-> "NumericArrayConversionError",
     message |-> "Failed to convert NumericArray from different type."],
    [name |-> "TensorNewError",
     message |-> "Failed to create a new MTensor."],
    [name |-> "TensorCloneError",
     message |-> "Failed to clone MTensor."],
    [name |-> "TensorTypeError",
     message |-> "An error was caused by an MTensor type mismatch."],
    [name |-> "TensorSizeError",
     message |-> "An error was caused by an incorrect Tensor size."],
    [name |-> "TensorIndexError",
     message |-> "An error was caused by attempting to access a nonexistent Tensor element."],
    [name |-> "ImageNewError",
     message |-> "Failed to create a new MImage."],
    [name |-> "ImageCloneError",
     message |-> "Failed to clone MImage."],
    [name |-> "ImageTypeError",
     message |-> "An error was caused by an MImage type mismatch."],
    [name |-> "ImageSizeError",
     message |-> "An error was caused by an incorrect Image size."],
    [name |-> "ImageIndexError",
     message |-> "An error was caused by attempting to access a nonexistent Image element."],
    [name |-> "CreateFromNullError",
     message |-> "Attempting to create a generic container from nullptr."],
    [name |-> "MArrayElementIndexError",
     message |-> "Attempting to access MArray element at invalid index."],
    [name |-> "MArrayElementIndexError",
     message |-> "Attempting to access MArray dimension 'd' which does not exist."],
    [name |-> "MLNullMlinkError",
     message |-> "Trying to create MLStream with NULL MLINK"],
    [name |-> "MLTestHeadError",
     message |-> "MLTestHead failed (wrong head or number of arguments)."],
    [name |-> "MLPutSymbolError",
     message |-> "MLPutSymbol failed."],
    [name |-> "MLPutFunctionError",
     message |-> "MLPutFunction failed."],
    [name |-> "MLTestSymbolError",
     message |-> "MLTestSymbol failed (different symbol on the link than expected)."],
    [name |-> "MLGetListError",
     message |-> "Could not get list from MathLink."],
    [name |-> "MLGetScalarError",
     message |-> "Could not get scalar from MathLink."],
    [name |-> "MLGetStringError",
     message |-> "Could not get string from MathLink."],
    [name |-> "MLGetArrayError",
     message |-> "Could not get array from MathLink."],
    [name |-> "MLPutListError",
     message |-> "Could not send list via MathLink."],
    [name |-> "MLPutScalarError",
     message |-> "Could not send scalar via MathLink."],
    [name |-> "MLPutStringError",
     message |-> "Could not send string via MathLink."],
    [name |-> "MLPutArrayError",
     message |-> "Could not send array via MathLink."],
    [name |-> "MLGetSymbolError",
     message |-> "MLGetSymbol failed."],
    [name |-> "MLGetFunctionError",
     message |-> "MLGetFunction failed."],
    [name |-> "MLPacketHandleError",
     message |-> "One of the packet handling functions failed."],
    [name |-> "MLFlowControlError",
     message |-> "One of the flow control functions failed."],
    [name |-> "MLTransferToLoopbackError",
     message |-> "Something went wrong when transferring expressions from loopback link."],
    [name |-> "MLCreateLoopbackError",
     message |-> "Could not create a new loopback link."],
    [name |-> "MLLoopbackStackSizeError",
     message |-> "Loopback stack size too small to perform desired action."],
    [name |-> "DLNullRawNode",
     message |-> "DataStoreNode passed to Node wrapper was null"],
    [name |-> "DLInvalidNodeType",
     message |-> "DataStoreNode passed to Node wrapper carries data of invalid type"],
    [name |-> "DLGetNodeDataError",
     message |-> "DataStoreNode_getData failed"],
    [name |-> "DLNullRawDataStore",
     message |-> "DataStore passed to DataList was null"],
    [name |-> "DLPushBackTypeError",
     message |-> "Element to be added to the DataList has incorrect type"],
    [name |-> "ArgumentCreateNull",
     message |-> "Trying to create Argument object from nullptr"],
    [name |-> "ArgumentAddNodeMArgument",
     message |-> "Trying to add DataStore Node of type MArgument (aka MType_Undef)"],
    [name |-> "Aborted",
     message |-> "Computation aborted by the user."],
    [name |-> "ManagedExprInvalidID",
     message |-> "Given number is not an ID of any existing managed expression."],
    [name |-> "MLEDynamicTypeError",
     message |-> "Invalid dynamic type requested for a Managed Library Expression"]>>

\* the names registered in a catalog
Names(e) == {e[i].name : i \in 1..Len(e)}

\* std::unordered_map::emplace of a LibraryLinkError: the first entry of a
\* name is kept
emplace(e, name, id, message) ==
    IF name \in Names(e) THEN e
    ELSE Append(e, [name |-> name, id |-> id, message |-> message])

\* a registration whose counter runs upwards from VersionError
registerLLUErrorsCountingUp(initList) ==
    LET taken == [i \in 1..Len(initList) |->
                     [name |-> initList[i].name, id |-> VersionError + (i - 1),
                      message |-> initList[i].message]]
        inserted(err) ==
            \A j \in 1..(err.id - VersionError) : initList[j].name # err.name
    IN SelectSeq(taken, inserted)

\* ErrorManager::registerLLUErrors(initList), run on the empty catalog with
\* nextErrorId() = VersionError: entry i of the list takes the id
\* VersionError - (i - 1), inserted or not (nextErrorId()--), and emplace
\* inserts it when no earlier entry has its name
registerLLUErrors(initList) ==
    LET taken == [i \in 1..Len(initList) |->
                     [name |-> initList[i].name, id |-> VersionError - (i - 1),
                      message |-> initList[i].message]]
        inserted(err) ==
            \A j \in 1..(VersionError - err.id) : initList[j].name # err.name
    IN SelectSeq(taken, inserted)

\* the catalog as the first call of errors() builds it
BuiltinCatalog == registerLLUErrors(BuiltinErrors)

(* --------------------------- host structures -------------------------- *)
NoStorage == [st |-> "unalloc", type |-> "none", dims |-> <<>>, data |-> <<>>,
              origin |-> "none"]

\* a wrapper slot in which no object has been constructed yet
NoWrapper == [st |-> "unborn", T |-> "none", internalMT |-> NULL,
              arrayOwnerQ |-> FALSE, depth |-> 0, flattenedLength |-> 0,
              dims |-> <<>>, passing |-> "Automatic"]

\* a wrapper slot whose object has been destroyed
DeadWrapper == [NoWrapper EXCEPT !.st = "dead"]

RECURSIVE Product(_)
Product(s) == IF s = <<>> THEN 1 ELSE Head(s) * Product(Tail(s))

\* the range of mint (MArgumentManager.h: MINT_MAX, MINT_MIN)
MINT_MAX == 2^(MintBits - 1) - 1
MINT_MIN == -(2^(MintBits - 1))
Mint     == MINT_MIN..MINT_MAX

\* MArrayBase::totalLengthFromDims, a noexcept function returning mint: the
\* values a call can return.  It is the product of the dimensions when that
\* is a mint; otherwise the multiplication overflows a signed integer, which
\* is undefined, and the call returns some mint.
totalLengthFromDims(dims) ==
    IF Product(dims) \in Mint THEN {Product(dims)} ELSE Mint

Fill(n, v) == [i \in 1..n |-> v]

\* the handle the host hands out on the next allocation (0 when exhausted)
FreshHandle ==
    IF \E h \in Handles : host[h].st = "unalloc"
    THEN CHOOSE h \in Handles : /\ host[h].st = "unalloc"
                                /\ \A g \in Handles : host[g].st = "unalloc" => h <= g
    ELSE NULL

\* the slot of the next wrapper object (0 when exhausted)
FreshWrapper ==
    IF \E w \in WIds : wr[w].st = "unborn"
    THEN CHOOSE w \in WIds : /\ wr[w].st = "unborn"
                             /\ \A v \in WIds : wr[v].st = "unborn" => w <= v
    ELSE 0

Live(w) == wr[w].st = "live"

\* host callbacks reading a handle
MTensor_getType(h)            == host[h].type
MTensor_getRank(h)            == Len(host[h].dims)
MTensor_getDimensions(h)      == host[h].dims
MTensor_getFlattenedLength(h) == Product(host[h].dims)

\* MTensor_new(type, 1, &flattenedLength, &internalMT): a flat tensor
MTensor_new(h, tag, len, origin) ==
    [host EXCEPT ![h] = [st |-> "live", type |-> tag, dims |-> <<len>>,
                         data |-> Fill(len, 0), origin |-> origin]]

\* MTensor_free(h): the host releases the storage and counts the call
MTensor_free(h) ==
    /\ freeCalls' = [freeCalls EXCEPT ![h] = @ + 1]
    /\ host' = IF h \in Handles
               THEN [host EXCEPT ![h].st = "freed", ![h].data = <<>>]
               ELSE host

(* -------------------------------- Init -------------------------------- *)
\* the handles the host passes to the call
InitHost ==
           [h \in Handles |->
                 IF h = 1 THEN [st |-> "live", type |-> "MType_Integer",
                                dims |-> <<2>>, data |-> <<0, 1>>, origin |-> "host"]
                 ELSE IF h = 2 THEN [st |-> "live", type |-> "MType_Real",
                                dims |-> <<1, 2>>, data |-> <<0, 1>>, origin |-> "host"]
                 ELSE NoStorage]

\* the state of a call apart from the capability table and the host handles
InitRest ==
    /\ shareCount = [h \in Handles |-> IF h = 2 THEN 1 ELSE 0]
    /\ freeCalls = [h \in 0..MaxHandles |-> 0]
    /\ disownCalls = [h \in Handles |-> 0]
    /\ wr = [w \in WIds |-> NoWrapper]
    /\ res = NULL
    /\ resLog = {}
    /\ cloneOf = [w \in WIds |-> 0]
    /\ writes = 0
    /\ stringArgs = NoStrings
    /\ errors = BuiltinCatalog
    /\ nextErrorId = VersionError - Len(BuiltinErrors)
    /\ last = [op |-> "init", T |-> "none", w |-> 0, src |-> 0, h |-> NULL,
               err |-> "NoError", ret |-> NoValue]

\* the state of a call apart from the capability table
InitCall == host = InitHost /\ InitRest

\* WolframLibrary_initialize has installed the capability table
Init == libData = TRUE /\ InitCall

\* slot 1 carries a handle of any variant with any type tag
InitDispatch ==
    /\ libData = TRUE
    /\ \E variant \in Variants : \E tag \in KindTags(variant) :
          host = [InitHost EXCEPT ![1].type = tag]
    /\ InitRest

\* slot 1 carries a real tensor, a raw array of unsigned bytes or an image
\* of an unsupported type
InitArgs ==
    /\ libData = TRUE
    /\ \E tag \in {"MType_Real", "MRawArray_Type_Ubit8", "MImage_Type_Undef"} :
          host = [InitHost EXCEPT ![1].type = tag]
    /\ InitRest

\* the capability table has not been installed yet
InitNoLibData == libData = FALSE /\ InitCall

\* record of the operation a step performed: its name, the element type it
\* was instantiated for, the wrapper it built or acted on, its source wrapper,
\* the handle involved, the error it threw and the element value it returned
Done(op, T, w, src, h, err) ==
    /\ last' = [op |-> op, T |-> T, w |-> w, src |-> src, h |-> h, err |-> err,
                ret |-> NoValue]
    /\ UNCHANGED managerVars

(* ------------------------- capability table --------------------------- *)
\* MArgumentManager::setLibraryData(ld), called by WolframLibrary_initialize
setLibraryData ==
    /\ ~libData
    /\ libData' = TRUE
    /\ Done("setLibraryData", "none", 0, 0, NULL, "NoError")
    /\ UNCHANGED <<host, shareCount, freeCalls, disownCalls, wr, res, resLog,
                   cloneOf, writes>>

\* MArgumentManager::MArgumentManager(Argc, Args, Res)
\* a manager that succeeds in its construction starts with an empty string
\* cache
MArgumentManagerCtor ==
    /\ last' = [op |-> "MArgumentManager", T |-> "none", w |-> 0, src |-> 0,
                h |-> NULL, ret |-> NoValue,
                err |-> IF ~libData THEN "MArgumentInitError" ELSE "NoError"]
    /\ stringArgs' = IF ~libData THEN stringArgs ELSE NoStrings
    /\ UNCHANGED <<callVars, errors, nextErrorId>>

(* ------------------- construction (Tensor.h, MArrayBase.h) ------------ *)
\* a base constructor that accepts a dimension of 0
BaseCtorErrorNonNegative(dims) ==
    IF ~libData THEN "FunctionError"
    ELSE IF \E i \in 1..Len(dims) : ~(dims[i] >= 0) THEN "DimensionsError"
    ELSE "NoError"

\* MArrayBase::MArrayBase(Container&& dimensions): the error it throws, if any.
\* initError() is called from the base-class constructor, so it is
\* MArrayBase::initError (FunctionError) that runs.
BaseCtorError(dims) ==
    IF ~libData THEN "FunctionError"
    ELSE IF \E i \in 1..Len(dims) : ~(dims[i] > 0) THEN "DimensionsError"
    ELSE "NoError"

\* a constructor that takes the rank of the flat host tensor it allocated
NewOwnedFlat(T, h, dims, len) ==
    [st |-> "live", T |-> T, internalMT |-> h, arrayOwnerQ |-> TRUE,
     depth |-> 1, flattenedLength |-> len,
     dims |-> dims, passing |-> "Automatic"]

\* the wrapper a successful constructor leaves behind
NewOwned(T, h, dims, len) ==
    [st |-> "live", T |-> T, internalMT |-> h, arrayOwnerQ |-> TRUE,
     depth |-> Len(dims), flattenedLength |-> len,
     dims |-> dims, passing |-> "Automatic"]

\* a fill constructor that leaves the storage as the host allocated it
ConstructFillNoInit(T, init, dims, ok) ==
    /\ FreshWrapper # 0 /\ FreshHandle # NULL
    /\ \E len \in totalLengthFromDims(dims) :
       LET w   == FreshWrapper
           h   == FreshHandle
           e   == BaseCtorError(dims)
       IN IF e # "NoError"
          THEN /\ Done("construct", T, 0, 0, NULL, e)
               /\ UNCHANGED <<host, wr>>
          ELSE IF ~ok
          THEN /\ Done("construct", T, 0, 0, NULL, "TensorNewError")
               /\ UNCHANGED <<host, wr>>
          ELSE /\ host' = MTensor_new(h, type(T), len, "native")
               /\ wr' = [wr EXCEPT ![w] = NewOwned(T, h, dims, len)]
               /\ Done("construct", T, w, 0, h, "NoError")
    /\ UNCHANGED <<libData, shareCount, freeCalls, disownCalls, res, resLog,
                   cloneOf, writes>>

\* Tensor<T>::Tensor(T init, Container&& dims); ok = MTensor_new succeeded
ConstructFill(T, init, dims, ok) ==
    /\ FreshWrapper # 0 /\ FreshHandle # NULL
    /\ \E len \in totalLengthFromDims(dims) :
       LET w   == FreshWrapper
           h   == FreshHandle
           e   == BaseCtorError(dims)
       IN IF e # "NoError"
          THEN /\ Done("construct", T, 0, 0, NULL, e)
               /\ UNCHANGED <<host, wr>>
          ELSE IF ~ok
          THEN /\ Done("construct", T, 0, 0, NULL, "TensorNewError")
               /\ UNCHANGED <<host, wr>>
          ELSE /\ host' = [MTensor_new(h, type(T), len, "native")
                              EXCEPT ![h].data = Fill(len, init)]
               /\ wr' = [wr EXCEPT ![w] = NewOwned(T, h, dims, len)]
               /\ Done("construct", T, w, 0, h, "NoError")
    /\ UNCHANGED <<libData, shareCount, freeCalls, disownCalls, res, resLog,
                   cloneOf, writes>>

\* a range constructor that does not compare the element count
ConstructRangeUnchecked(T, elems, dims, ok) ==
    /\ FreshWrapper # 0 /\ FreshHandle # NULL
    /\ \E len \in totalLengthFromDims(dims) :
       LET w   == FreshWrapper
           h   == FreshHandle
           e   == BaseCtorError(dims)
       IN IF e # "NoError"
          THEN /\ Done("constructRange", T, 0, 0, NULL, e)
               /\ UNCHANGED <<host, wr>>
          ELSE IF ~ok
          THEN /\ Done("constructRange", T, 0, 0, NULL, "TensorNewError")
               /\ UNCHANGED <<host, wr>>
          ELSE /\ host' = [MTensor_new(h, type(T), len, "native")
                              EXCEPT ![h].data = elems]
               /\ wr' = [wr EXCEPT ![w] = NewOwned(T, h, dims, len)]
               /\ Done("constructRange", T, w, 0, h, "NoError")
    /\ UNCHANGED <<libData, shareCount, freeCalls, disownCalls, res, resLog,
                   cloneOf, writes>>

\* Tensor<T>::Tensor(InputIt first, InputIt last, Container&& dims)
ConstructRange(T, elems, dims, ok) ==
    /\ FreshWrapper # 0 /\ FreshHandle # NULL
    /\ \E len \in totalLengthFromDims(dims) :
       LET w   == FreshWrapper
           h   == FreshHandle
           e   == BaseCtorError(dims)
       IN IF e # "NoError"
          THEN /\ Done("constructRange", T, 0, 0, NULL, e)
               /\ UNCHANGED <<host, wr>>
          ELSE IF ~ok
          THEN /\ Done("constructRange", T, 0, 0, NULL, "TensorNewError")
               /\ UNCHANGED <<host, wr>>
          ELSE IF Len(elems) # len
          THEN \* createInternal() has run; the exception leaves the
               \* constructor, so ~Tensor() never runs for this object
               /\ host' = MTensor_new(h, type(T), len, "native")
               /\ Done("constructRange", T, 0, 0, h, "TensorNewError")
               /\ UNCHANGED wr
          ELSE /\ host' = [MTensor_new(h, type(T), len, "native")
                              EXCEPT ![h].data = elems]
               /\ wr' = [wr EXCEPT ![w] = NewOwned(T, h, dims, len)]
               /\ Done("constructRange", T, w, 0, h, "NoError")
    /\ UNCHANGED <<libData, shareCount, freeCalls, disownCalls, res, resLog,
                   cloneOf, writes>>

(* ------------------------ wrapping a host handle ---------------------- *)
\* a bounds test that rejects the last slot as well
IndexOkExclusive(index) == index < Argc - 1

\* MArgumentManager::getArgs(index): index is zero-based
IndexOk(index) == index < Argc

\* a wrap that skips the comparison of the type tags
WrapErrorNoTypeCheck(T, t) ==
    IF ~libData THEN "TensorInitError" ELSE "NoError"

\* Tensor<T>::Tensor(const MTensor t): the error it throws, if any
WrapError(T, t) ==
    IF ~libData THEN "TensorInitError"
    ELSE IF type(T) # MTensor_getType(t) THEN "TensorTypeError"
    ELSE "NoError"

\* a wrapper that records the handle as a flat list
WrappedFlat(T, t) ==
    [st |-> "live", T |-> T, internalMT |-> t, arrayOwnerQ |-> FALSE,
     depth |-> 1,
     flattenedLength |-> MTensor_getFlattenedLength(t),
     dims |-> <<MTensor_getFlattenedLength(t)>>,
     passing |-> "Automatic"]

\* Tensor<T>::Tensor(const MTensor t): the wrapper it builds
Wrapped(T, t) ==
    [st |-> "live", T |-> T, internalMT |-> t, arrayOwnerQ |-> FALSE,
     depth |-> MTensor_getRank(t),
     flattenedLength |-> MTensor_getFlattenedLength(t),
     dims |-> SubSeq(MTensor_getDimensions(t), 1, MTensor_getRank(t)),
     passing |-> "Automatic"]

\* MArgumentManager::getTensor<T>(index)
GetTensor(T, index) ==
    /\ FreshWrapper # 0
    /\ LET w == FreshWrapper IN
       IF ~IndexOk(index)
       THEN /\ Done("wrap", T, 0, 0, NULL, "MArgumentIndexError")
            /\ UNCHANGED wr
       ELSE LET t == Args[index + 1]
                e == WrapError(T, t)
            IN IF e # "NoError"
               THEN /\ Done("wrap", T, 0, 0, t, e)
                    /\ UNCHANGED wr
               ELSE /\ wr' = [wr EXCEPT ![w] = Wrapped(T, t)]
                    /\ Done("wrap", T, w, 0, t, "NoError")
    /\ UNCHANGED <<libData, host, shareCount, freeCalls, disownCalls, res,
                   resLog, cloneOf, writes>>

(* ------------------------ runtime-type dispatch ----------------------- *)
\* getTensorType(index), getRawArrayType(index), getImageType(index): the
\* type tag of the handle in slot index
getType(index) == host[Args[index + 1]].type

\* the switch of operateOnTensor: the T of the getTensor<T> it selects for a
\* tag, "none" for the default branch
TensorSwitch(tag) ==
    CASE tag = "MType_Integer" -> "mint"
      [] tag = "MType_Real"    -> "double"
      [] tag = "MType_Complex" -> "complex<double>"
      [] OTHER                 -> "none"

\* a switch that selects the signed byte for unsigned 8-bit data
RawArraySwitchSigned(tag) ==
    CASE tag = "MRawArray_Type_Bit8"           -> "int8_t"
      [] tag = "MRawArray_Type_Ubit8"          -> "int8_t"
      [] tag = "MRawArray_Type_Bit16"          -> "int16_t"
      [] tag = "MRawArray_Type_Ubit16"         -> "uint16_t"
      [] tag = "MRawArray_Type_Bit32"          -> "int32_t"
      [] tag = "MRawArray_Type_Ubit32"         -> "uint32_t"
      [] tag = "MRawArray_Type_Bit64"          -> "int64_t"
      [] tag = "MRawArray_Type_Ubit64"         -> "uint64_t"
      [] tag = "MRawArray_Type_Real32"         -> "float"
      [] tag = "MRawArray_Type_Real64"         -> "double"
      [] tag = "MRawArray_Type_Float_Complex"  -> "complex<float>"
      [] tag = "MRawArray_Type_Double_Complex" -> "complex<double>"
      [] OTHER                                 -> "none"

\* the switch of operateOnRawArray
RawArraySwitch(tag) ==
    CASE tag = "MRawArray_Type_Bit8"           -> "int8_t"
      [] tag = "MRawArray_Type_Ubit8"          -> "uint8_t"
      [] tag = "MRawArray_Type_Bit16"          -> "int16_t"
      [] tag = "MRawArray_Type_Ubit16"         -> "uint16_t"
      [] tag = "MRawArray_Type_Bit32"          -> "int32_t"
      [] tag = "MRawArray_Type_Ubit32"         -> "uint32_t"
      [] tag = "MRawArray_Type_Bit64"          -> "int64_t"
      [] tag = "MRawArray_Type_Ubit64"         -> "uint64_t"
      [] tag = "MRawArray_Type_Real32"         -> "float"
      [] tag = "MRawArray_Type_Real64"         -> "double"
      [] tag = "MRawArray_Type_Float_Complex"  -> "complex<float>"
      [] tag = "MRawArray_Type_Double_Complex" -> "complex<double>"
      [] OTHER                                 -> "none"

\* a switch whose default branch treats the image as 8-bit
ImageSwitchDefaultsToByte(tag) ==
    CASE tag = "MImage_Type_Bit"    -> "int8_t"
      [] tag = "MImage_Type_Bit8"   -> "uint8_t"
      [] tag = "MImage_Type_Bit16"  -> "uint16_t"
      [] tag = "MImage_Type_Real32" -> "float"
      [] tag = "MImage_Type_Real"   -> "double"
      [] OTHER                      -> "uint8_t"

\* the switch of operateOnImage
ImageSwitch(tag) ==
    CASE tag = "MImage_Type_Bit"    -> "int8_t"
      [] tag = "MImage_Type_Bit8"   -> "uint8_t"
      [] tag = "MImage_Type_Bit16"  -> "uint16_t"
      [] tag = "MImage_Type_Real32" -> "float"
      [] tag = "MImage_Type_Real"   -> "double"
      [] OTHER                      -> "none"

\* the type error of the wrap constructor of a variant
TypeErrorOf(variant) ==
    CASE variant = "Tensor"   -> "TensorTypeError"
      [] variant = "RawArray" -> "RawArrayTypeError"
      [] variant = "Image"    -> "ImageTypeError"

\* fun(getTensor<T>(index)), fun(getRawArray<T>(index)), fun(getImage<T>(index)):
\* the handle in slot index is wrapped as T and the operation is invoked on
\* the wrapper
Invoke(op, variant, index, T) ==
    LET t == Args[index + 1]
        w == FreshWrapper
    IN IF typeOf(variant, T) # host[t].type
       THEN /\ Done(op, T, 0, 0, t, TypeErrorOf(variant))
            /\ UNCHANGED wr
       ELSE /\ wr' = [wr EXCEPT ![w] = Wrapped(T, t)]
            /\ Done(op, T, w, 0, t, "NoError")

\* MArgumentManager::operateOnTensor<Operator>(index)
OperateOnTensor(index) ==
    /\ FreshWrapper # 0
    /\ IndexOk(index) => getType(index) \in KindTags("Tensor")
    /\ IF ~IndexOk(index)
       THEN /\ Done("operateOnTensor", "none", 0, 0, NULL, "MArgumentIndexError")
            /\ UNCHANGED wr
       ELSE IF TensorSwitch(getType(index)) = "none"
       THEN /\ Done("operateOnTensor", "none", 0, 0, Args[index + 1],
                    "MArgumentTensorError")
            /\ UNCHANGED wr
       ELSE Invoke("operateOnTensor", "Tensor", index, TensorSwitch(getType(index)))
    /\ UNCHANGED <<libData, host, shareCount, freeCalls, disownCalls, res,
                   resLog, cloneOf, writes>>

\* MArgumentManager::operateOnRawArray<Operator>(index)
OperateOnRawArray(index) ==
    /\ FreshWrapper # 0
    /\ IndexOk(index) => getType(index) \in KindTags("RawArray")
    /\ IF ~IndexOk(index)
       THEN /\ Done("operateOnRawArray", "none", 0, 0, NULL, "MArgumentIndexError")
            /\ UNCHANGED wr
       ELSE IF RawArraySwitch(getType(index)) = "none"
       THEN /\ Done("operateOnRawArray", "none", 0, 0, Args[index + 1],
                    "MArgumentRawArrayError")
            /\ UNCHANGED wr
       ELSE Invoke("operateOnRawArray", "RawArray", index,
                   RawArraySwitch(getType(index)))
    /\ UNCHANGED <<libData, host, shareCount, freeCalls, disownCalls, res,
                   resLog, cloneOf, writes>>

\* MArgumentManager::operateOnImage<Operator>(index)
OperateOnImage(index) ==
    /\ FreshWrapper # 0
    /\ IndexOk(index) => getType(index) \in KindTags("Image")
    /\ IF ~IndexOk(index)
       THEN /\ Done("operateOnImage", "none", 0, 0, NULL, "MArgumentIndexError")
            /\ UNCHANGED wr
       ELSE IF ImageSwitch(getType(index)) = "none"
       THEN /\ Done("operateOnImage", "none", 0, 0, Args[index + 1],
                    "MArgumentImageError")
            /\ UNCHANGED wr
       ELSE Invoke("operateOnImage", "Image", index, ImageSwitch(getType(index)))
    /\ UNCHANGED <<libData, host, shareCount, freeCalls, disownCalls, res,
                   resLog, cloneOf, writes>>

(* ------------------------ scalar and text arguments ------------------- *)
\* the argument indices a library function may ask for (unsigned int), some
\* of them past the last slot
Indices == 0..(Argc + 1)

\* the getters of scalar arguments
ScalarGetters == {"getBoolean", "getInteger", "getReal", "getComplex"}

\* MArgument_getBoolean, MArgument_getInteger, MArgument_getReal,
\* MArgument_getComplex: what the host stored in slot index, read as the
\* getter's type
MArgument_get(get, index) ==
    CASE get = "getBoolean" -> <<TRUE, FALSE>>[index + 1]
      [] get = "getInteger" -> <<3, -2>>[index + 1]
      [] get = "getReal"    -> <<"1.5", "-0.5">>[index + 1]
      [] get = "getComplex" -> <<"1.5+2i", "-i">>[index + 1]

\* MArgument_getUTF8String: the text the host stored in slot index
ArgText == <<"ab", "cd">>

\* the texts a library function may write into a string it got
Texts == {"ab", "xy"}

\* the record of a step of the argument manager on a slot
Got(op, h, err, ret) ==
    [op |-> op, T |-> "none", w |-> 0, src |-> 0, h |-> h, err |-> err,
     ret |-> ret]

\* getBoolean(index), getInteger<T>(index), getReal(index), getComplex(index)
GetScalar(get, index) ==
    /\ last' = IF ~IndexOk(index)
               THEN Got(get, NULL, "MArgumentIndexError", NoValue)
               ELSE Got(get, NULL, "NoError", MArgument_get(get, index))
    /\ UNCHANGED <<callVars, managerVars>>

\* the name of the type getter of a variant
GetTypeName(variant) ==
    CASE variant = "Tensor"   -> "getTensorType"
      [] variant = "RawArray" -> "getRawArrayType"
      [] variant = "Image"    -> "getImageType"

\* getTensorType(index), getRawArrayType(index), getImageType(index)
GetType(variant, index) ==
    /\ IndexOk(index) => getType(index) \in KindTags(variant)
    /\ last' = IF ~IndexOk(index)
               THEN Got(GetTypeName(variant), NULL, "MArgumentIndexError", NoValue)
               ELSE Got(GetTypeName(variant), Args[index + 1], "NoError",
                        getType(index))
    /\ UNCHANGED <<callVars, managerVars>>

\* a getString that copies the host's text on every call
GetStringRereads(index) ==
    /\ IF ~IndexOk(index)
       THEN /\ last' = Got("getString", NULL, "MArgumentIndexError", NoValue)
            /\ UNCHANGED stringArgs
       ELSE /\ stringArgs' = [stringArgs EXCEPT ![index] = ArgText[index + 1]]
            /\ last' = Got("getString", NULL, "NoError", stringArgs'[index])
    /\ UNCHANGED <<callVars, errors, nextErrorId>>

\* MArgumentManager::getString(index): the host's text is copied into
\* stringArgs[index] when that is still empty, and a reference to
\* stringArgs[index] is returned
GetString(index) ==
    /\ IF ~IndexOk(index)
       THEN /\ last' = Got("getString", NULL, "MArgumentIndexError", NoValue)
            /\ UNCHANGED stringArgs
       ELSE /\ stringArgs' = IF stringArgs[index] = NoValue
                             THEN [stringArgs EXCEPT ![index] = ArgText[index + 1]]
                             ELSE stringArgs
            /\ last' = Got("getString", NULL, "NoError", stringArgs'[index])
    /\ UNCHANGED <<callVars, errors, nextErrorId>>

\* the library function assigns through the std::string& that getString(index)
\* returned
ModifyString(index, text) ==
    /\ IndexOk(index)
    /\ stringArgs[index] # NoValue
    /\ stringArgs' = [stringArgs EXCEPT ![index] = text]
    /\ last' = Got("modifyString", NULL, "NoError", text)
    /\ UNCHANGED <<callVars, errors, nextErrorId>>

\* values of a type T wider than mint that a library function may hand to
\* setMintAndCheck: every mint and a few values on either side
Results == (MINT_MIN - 2)..(MINT_MAX + 2)

\* MArgumentManager::setMintAndCheck<T>(result): setInteger writes the value
\* into the output slot; the value returned tells whether it was replaced
SetMintAndCheck(result) ==
    /\ IF result >= MINT_MAX
       THEN /\ res' = MINT_MAX
            /\ last' = Got("setMintAndCheck", NULL, "NoError", TRUE)
       ELSE IF result <= MINT_MIN
       THEN /\ res' = MINT_MIN
            /\ last' = Got("setMintAndCheck", NULL, "NoError", TRUE)
       ELSE /\ res' = result
            /\ last' = Got("setMintAndCheck", NULL, "NoError", FALSE)
    /\ UNCHANGED <<libData, host, shareCount, freeCalls, disownCalls, wr,
                   resLog, cloneOf, writes, managerVars>>

(* ------------------------------ ErrorManager -------------------------- *)
\* longest list handed to registerPacletErrors
MaxErrs == 2

\* names a paclet registers or throws: two of its own and one of a built-in
\* error
PacletNames == {"DataFileError", "DataError", "Aborted"}

\* messages a paclet registers (the second is the built-in message of Aborted)
PacletMessages == {"Data file not found.", "Computation aborted by the user."}

\* ErrorStringData: a name and a message
ErrorStringData == [name : PacletNames, message : PacletMessages]

\* the lists of at most MaxErrs entries handed to registerPacletErrors
ErrorLists == UNION {[1..n -> ErrorStringData] : n \in 0..MaxErrs}

\* errors().find(name)->second
find(e, name) == e[CHOOSE i \in 1..Len(e) : e[i].name = name]

\* ErrorCode::NoError and ErrorCode::FunctionError: the host's codes, which
\* the first entries of the catalog ("Original LibraryLink error codes")
\* received from nextErrorId() counting down from ErrorCode::VersionError
ErrorCode(name) == find(BuiltinCatalog, name).id

\* a set that keeps the decremented counter when nothing was inserted
setNoRevert(e, next, errorData) ==
    IF errorData.name \notin Names(e)
    THEN [errors |-> emplace(e, errorData.name, next, errorData.message),
          nextErrorId |-> next - 1, err |-> "NoError"]
    ELSE [errors |-> e, nextErrorId |-> next - 1,
          err |-> IF find(e, errorData.name).message # errorData.message
                  THEN "ErrorManagerCreateNameError" ELSE "NoError"]

\* a set that inserts without taking the id out of the counter
setReusesId(e, next, errorData) ==
    IF errorData.name \notin Names(e)
    THEN [errors |-> emplace(e, errorData.name, next, errorData.message),
          nextErrorId |-> next, err |-> "NoError"]
    ELSE [errors |-> e, nextErrorId |-> next,
          err |-> IF find(e, errorData.name).message # errorData.message
                  THEN "ErrorManagerCreateNameError" ELSE "NoError"]

\* ErrorManager::set(errorData) on catalog e with nextErrorId() = next: the
\* catalog and the counter it leaves and the error it throws.  emplace is
\* handed the id nextErrorId()--; when the name is present nothing is
\* inserted, the counter is put back (nextErrorId()++) and a message that
\* differs from the registered one throws ErrorManagerCreateNameError.
set(e, next, errorData) ==
    IF errorData.name \notin Names(e)
    THEN [errors |-> emplace(e, errorData.name, next, errorData.message),
          nextErrorId |-> next - 1, err |-> "NoError"]
    ELSE [errors |-> e, nextErrorId |-> (next - 1) + 1,
          err |-> IF find(e, errorData.name).message # errorData.message
                  THEN "ErrorManagerCreateNameError" ELSE "NoError"]

\* ErrorManager::registerPacletErrors(errs): set(err) for each entry in turn;
\* the first set that throws ends the loop
RECURSIVE registerPacletErrors(_, _, _)
registerPacletErrors(e, next, errs) ==
    IF errs = <<>>
    THEN [errors |-> e, nextErrorId |-> next, err |-> "NoError"]
    ELSE LET r == set(e, next, Head(errs))
         IN IF r.err # "NoError" THEN r
            ELSE registerPacletErrors(r.errors, r.nextErrorId, Tail(errs))

\* a library function calls ErrorManager::set(errorData)
Set(errorData) ==
    LET r == set(errors, nextErrorId, errorData) IN
    /\ errors' = r.errors
    /\ nextErrorId' = r.nextErrorId
    /\ last' = Got("set", NULL, r.err, NoValue)
    /\ UNCHANGED <<callVars, stringArgs>>

\* WolframLibrary_initialize calls ErrorManager::registerPacletErrors(errs)
RegisterPacletErrors(errs) ==
    LET r == registerPacletErrors(errors, nextErrorId, errs) IN
    /\ errors' = r.errors
    /\ nextErrorId' = r.nextErrorId
    /\ last' = Got("registerPacletErrors", NULL, r.err, NoValue)
    /\ UNCHANGED <<callVars, stringArgs>>

\* ErrorManager::findError(errorName): the registered error, or
\* ErrorManagerThrowNameError when the name is not registered
findError(errorName) ==
    IF errorName \in Names(errors) THEN find(errors, errorName)
    ELSE find(errors, "ErrorManagerThrowNameError")

\* what the body of a library function may throw: nothing, an exception that
\* is no LibraryLinkError, or ErrorManager::throwException(name) for a
\* built-in name or a paclet's name, registered or not
Thrown == {"none", "std::exception"} \cup Names(BuiltinCatalog) \cup PacletNames

\* a library function at the host boundary (sendRegisteredErrors, the
\* LIBRARY_LINK_FUNCTIONs of the tests): err = NoError; the body runs in a
\* try block; catch (LibraryLinkError& e) sets err = e.which(), the handler
\* of other exceptions sets err = FunctionError; err is returned.  The step
\* records what the body threw ("none" for nothing) and the status returned
\* to the host.
LibraryFunction(thrown) ==
    LET e == IF thrown \in {"none", "std::exception"} THEN thrown
             ELSE findError(thrown).name
    IN /\ last' = Got("libraryFunction", NULL, e,
                      CASE e = "none"           -> ErrorCode("NoError")
                        [] e = "std::exception" -> ErrorCode("FunctionError")
                        [] OTHER                -> find(errors, e).id)
       /\ UNCHANGED <<callVars, managerVars>>

(* ----------------------------- move, pass ----------------------------- *)
\* a base-class move that default-initialises the ownership flag
MArrayBaseLosesOwner(src) == [src EXCEPT !.internalMT = NULL, !.arrayOwnerQ = FALSE]

\* the base-class part of the move: MArrayBase has no move constructor of
\* its own, every member (arrayOwnerQ included) is copied from the source
\* (the derived member internalMT starts as nullptr)
MArrayBaseCopy(src) == [src EXCEPT !.internalMT = NULL]

\* a move constructor that forgets to reset the source
MoveKeepsOwner(s) ==
    /\ Live(s) /\ wr[s].passing = "Automatic"
    /\ FreshWrapper # 0
    /\ LET w == FreshWrapper IN
       /\ wr' = [wr EXCEPT ![w] = wr[s]]
       /\ Done("move", wr[s].T, w, s, wr[s].internalMT, "NoError")
    /\ UNCHANGED <<libData, host, shareCount, freeCalls, disownCalls, res,
                   resLog, cloneOf, writes>>

\* a move constructor whose target always owns the handle
MoveMakesOwner(s) ==
    /\ Live(s) /\ wr[s].passing = "Automatic"
    /\ FreshWrapper # 0
    /\ LET w == FreshWrapper IN
       /\ wr' = [wr EXCEPT ![w] = [wr[s] EXCEPT !.arrayOwnerQ = TRUE],
                           ![s].internalMT = NULL,
                           ![s].arrayOwnerQ = FALSE]
       /\ Done("move", wr[s].T, w, s, wr[s].internalMT, "NoError")
    /\ UNCHANGED <<libData, host, shareCount, freeCalls, disownCalls, res,
                   resLog, cloneOf, writes>>

\* Tensor<T>::Tensor(Tensor<T>&& t2)
MoveConstruct(s) ==
    /\ Live(s) /\ wr[s].passing = "Automatic"
    /\ FreshWrapper # 0
    /\ LET w == FreshWrapper IN
       /\ wr' = [wr EXCEPT ![w] = [MArrayBaseCopy(wr[s]) EXCEPT
                                         !.internalMT = wr[s].internalMT],
                           ![s].internalMT = NULL,
                           ![s].arrayOwnerQ = FALSE]
       /\ Done("move", wr[s].T, w, s, wr[s].internalMT, "NoError")
    /\ UNCHANGED <<libData, host, shareCount, freeCalls, disownCalls, res,
                   resLog, cloneOf, writes>>

\* passAsResult without setOwner(false)
PassKeepsOwner(w) ==
    /\ Live(w) /\ wr[w].passing = "Automatic"
    /\ res' = wr[w].internalMT
    /\ resLog' = resLog \cup {wr[w].internalMT}
    /\ Done("pass", wr[w].T, w, 0, wr[w].internalMT, "NoError")
    /\ UNCHANGED <<libData, host, shareCount, freeCalls, disownCalls, wr,
                   cloneOf, writes>>

\* MArgumentManager::setTensor(ten) -> MArrayBase::passAsResult(res):
\* passInternal(res); setOwner(false)
PassAsResult(w) ==
    /\ Live(w) /\ wr[w].passing = "Automatic"
    /\ res' = wr[w].internalMT
    /\ resLog' = resLog \cup {wr[w].internalMT}
    /\ wr' = [wr EXCEPT ![w].arrayOwnerQ = FALSE]
    /\ Done("pass", wr[w].T, w, 0, wr[w].internalMT, "NoError")
    /\ UNCHANGED <<libData, host, shareCount, freeCalls, disownCalls,
                   cloneOf, writes>>

(* ----------------------------- destruction ---------------------------- *)
\* a destructor that frees without looking at arrayOwnerQ
DestroyAlwaysFrees(w) ==
    /\ Live(w) /\ wr[w].passing = "Automatic"
    /\ MTensor_free(wr[w].internalMT)
    /\ wr' = [wr EXCEPT ![w] = DeadWrapper]
    /\ Done("destroy", wr[w].T, w, 0, wr[w].internalMT, "NoError")
    /\ UNCHANGED <<libData, shareCount, disownCalls, res, resLog, cloneOf,
                   writes>>

\* Tensor<T>::~Tensor(): if (arrayOwnerQ) freeInternal();
Destroy(w) ==
    /\ Live(w) /\ wr[w].passing = "Automatic"
    /\ IF wr[w].arrayOwnerQ
       THEN MTensor_free(wr[w].internalMT)
       ELSE UNCHANGED <<host, freeCalls>>
    /\ wr' = [wr EXCEPT ![w] = DeadWrapper]
    /\ Done("destroy", wr[w].T, w, 0, wr[w].internalMT, "NoError")
    /\ UNCHANGED <<libData, shareCount, disownCalls, res, resLog, cloneOf,
                   writes>>

(* ------------------------- clone, element write ----------------------- *)
\* a copy that takes over the ownership flag of its source
CloneCopiesOwnerFlag(s, ok) ==
    /\ Live(s) /\ wr[s].passing = "Automatic" /\ wr[s].internalMT # NULL
    /\ FreshWrapper # 0 /\ FreshHandle # NULL
    /\ LET w == FreshWrapper
           h == FreshHandle
       IN IF ~ok
          THEN /\ Done("clone", wr[s].T, 0, s, NULL, "TensorCloneError")
               /\ UNCHANGED <<host, wr, cloneOf>>
          ELSE /\ host' = [host EXCEPT ![h] =
                              [host[wr[s].internalMT] EXCEPT !.origin = "native"]]
               /\ wr' = [wr EXCEPT ![w] = [wr[s] EXCEPT !.internalMT = h]]
               /\ cloneOf' = [cloneOf EXCEPT ![w] = s]
               /\ Done("clone", wr[s].T, w, s, h, "NoError")
    /\ UNCHANGED <<libData, shareCount, freeCalls, disownCalls, res, resLog,
                   writes>>

\* a copy that shares the storage of its source
CloneShallow(s, ok) ==
    /\ Live(s) /\ wr[s].passing = "Automatic" /\ wr[s].internalMT # NULL
    /\ FreshWrapper # 0 /\ FreshHandle # NULL
    /\ LET w == FreshWrapper
       IN IF ~ok
          THEN /\ Done("clone", wr[s].T, 0, s, NULL, "TensorCloneError")
               /\ UNCHANGED <<wr, cloneOf>>
          ELSE /\ wr' = [wr EXCEPT ![w] = [wr[s] EXCEPT !.arrayOwnerQ = TRUE]]
               /\ cloneOf' = [cloneOf EXCEPT ![w] = s]
               /\ Done("clone", wr[s].T, w, s, wr[s].internalMT, "NoError")
    /\ UNCHANGED <<libData, host, shareCount, freeCalls, disownCalls, res,
                   resLog, writes>>

\* copy construction: a deep copy through the clone hook of the variant;
\* ok = the hook succeeded
Clone(s, ok) ==
    /\ Live(s) /\ wr[s].passing = "Automatic" /\ wr[s].internalMT # NULL
    /\ FreshWrapper # 0 /\ FreshHandle # NULL
    /\ LET w == FreshWrapper
           h == FreshHandle
       IN IF ~ok
          THEN /\ Done("clone", wr[s].T, 0, s, NULL, "TensorCloneError")
               /\ UNCHANGED <<host, wr, cloneOf>>
          ELSE /\ host' = [host EXCEPT ![h] =
                              [host[wr[s].internalMT] EXCEPT !.origin = "native"]]
               /\ wr' = [wr EXCEPT ![w] = [wr[s] EXCEPT !.internalMT = h,
                                                        !.arrayOwnerQ = TRUE]]
               /\ cloneOf' = [cloneOf EXCEPT ![w] = s]
               /\ Done("clone", wr[s].T, w, s, h, "NoError")
    /\ UNCHANGED <<libData, shareCount, freeCalls, disownCalls, res, resLog,
                   writes>>

\* element write through a wrapper: b[i] = v (flat, zero-based index i)
Write(w, i, v) ==
    /\ Live(w) /\ wr[w].internalMT # NULL
    /\ host[wr[w].internalMT].st = "live"
    /\ writes < MaxWrites
    /\ i < Len(host[wr[w].internalMT].data)
    /\ host' = [host EXCEPT ![wr[w].internalMT].data[i + 1] = v]
    /\ writes' = writes + 1
    /\ Done("write", wr[w].T, w, 0, wr[w].internalMT, "NoError")
    /\ UNCHANGED <<libData, shareCount, freeCalls, disownCalls, wr, res,
                   resLog, cloneOf>>

(* ---------------------------- element access ------------------------- *)
RECURSIVE Dot(_, _)
Dot(a, b) == IF a = <<>> THEN 0 ELSE Head(a) * Head(b) + Dot(Tail(a), Tail(b))

\* MArrayBase::fillOffsets: the row-major stride of every dimension
fillOffsets(dims) ==
    [i \in 1..Len(dims) |-> Product(SubSeq(dims, i + 1, Len(dims)))]

\* an index check that only refuses negative coordinates
IndexNonNegative(dims, indices) ==
    \A i \in 1..Len(indices) : indices[i] >= 0

\* the bounds test of MArrayBase::getIndex: every coordinate is in [0, dimension)
IndexInBounds(dims, indices) ==
    \A i \in 1..Len(indices) : indices[i] >= 0 /\ indices[i] < dims[i]

\* MArrayBase::getIndex(indices): the flat offset of in-bounds coordinates
getIndex(dims, indices) == Dot(indices, fillOffsets(dims))

\* the values reading the element at in-bounds coordinates can give; reading
\* past the storage of the handle is undefined and gives any value
element(w, indices) ==
    LET k    == getIndex(wr[w].dims, indices)
        data == host[wr[w].internalMT].data
    IN IF k < Len(data) THEN {data[k + 1]} ELSE Values

\* MArray<T>::operator[](indices): the outcomes of the call, each the error
\* thrown and the value returned
elementAt(w, indices) ==
    IF ~IndexInBounds(wr[w].dims, indices)
    THEN {[err |-> "TensorIndexError", ret |-> NoValue]}
    ELSE {[err |-> "NoError", ret |-> v] : v \in element(w, indices)}

\* the wrappers an element can be read from
Readable(w) ==
    /\ Live(w)
    /\ wr[w].internalMT # NULL /\ host[wr[w].internalMT].st = "live"

\* MArray<T>::operator[](indices) on a live wrapper, one coordinate per dimension
Element(w, indices) ==
    /\ Readable(w) /\ Len(indices) = wr[w].depth
    /\ \E out \in elementAt(w, indices) :
          last' = [op |-> "element", T |-> wr[w].T, w |-> w, src |-> 0,
                   h |-> wr[w].internalMT, err |-> out.err, ret |-> out.ret]
    /\ UNCHANGED managerVars
    /\ UNCHANGED <<libData, host, shareCount, freeCalls, disownCalls, wr, res,
                   resLog, cloneOf, writes>>

(* ----------------------------- Shared mode ---------------------------- *)
\* a holder in Shared mode exists for handle h
SharedHolder(h) ==
    \E w \in WIds : wr[w].st # "unborn" /\ wr[w].passing = "Shared"
                    /\ wr[w].internalMT = h

\* wrap a handle the host passed with the Shared convention: the holder
\* takes over the share the host handed out with the argument
WrapShared(T, index) ==
    /\ FreshWrapper # 0
    /\ IndexOk(index)
    /\ LET t == Args[index + 1]
           w == FreshWrapper
       IN /\ shareCount[t] > 0
          /\ ~SharedHolder(t)
          /\ WrapError(T, t) = "NoError"
          /\ wr' = [wr EXCEPT ![w] = [Wrapped(T, t) EXCEPT !.passing = "Shared"]]
          /\ Done("wrapShared", T, w, 0, t, "NoError")
    /\ UNCHANGED <<libData, host, shareCount, freeCalls, disownCalls, res,
                   resLog, cloneOf, writes>>

\* b2 = b1 in Shared mode: a second holder, the host-side count goes up
CopyShared(s) ==
    /\ Live(s) /\ wr[s].passing = "Shared"
    /\ FreshWrapper # 0
    /\ LET w == FreshWrapper
           h == wr[s].internalMT
       IN /\ wr' = [wr EXCEPT ![w] = wr[s]]
          /\ shareCount' = [shareCount EXCEPT ![h] = @ + 1]
          /\ Done("copyShared", wr[s].T, w, s, h, "NoError")
    /\ UNCHANGED <<libData, host, freeCalls, disownCalls, res, resLog,
                   cloneOf, writes>>

\* a Shared holder that hard-frees the storage on destruction
DestroySharedFrees(w) ==
    /\ Live(w) /\ wr[w].passing = "Shared"
    /\ MTensor_free(wr[w].internalMT)
    /\ wr' = [wr EXCEPT ![w].st = "dead"]
    /\ Done("destroyShared", wr[w].T, w, 0, wr[w].internalMT, "NoError")
    /\ UNCHANGED <<libData, shareCount, disownCalls, res, resLog, cloneOf,
                   writes>>

\* destruction of a Shared holder: disown instead of free when the share
\* count is positive
DestroyShared(w) ==
    /\ Live(w) /\ wr[w].passing = "Shared"
    /\ LET h == wr[w].internalMT IN
       /\ IF shareCount[h] > 0
          THEN /\ disownCalls' = [disownCalls EXCEPT ![h] = @ + 1]
               /\ shareCount' = [shareCount EXCEPT ![h] = @ - 1]
          ELSE UNCHANGED <<disownCalls, shareCount>>
       /\ wr' = [wr EXCEPT ![w].st = "dead"]
       /\ Done("destroyShared", wr[w].T, w, 0, h, "NoError")
    /\ UNCHANGED <<libData, host, freeCalls, res, resLog, cloneOf, writes>>

(* ------------------------------- Next --------------------------------- *)
\* ownership operations of one host call
Next ==
    \/ \E T \in CtorTypes, dims \in CtorDims, ok \in BOOLEAN :
          ConstructFill(T, 1, dims, ok)
    \/ \E T \in CtorTypes, elems \in RangeSet, ok \in BOOLEAN :
          ConstructRange(T, elems, <<2>>, ok)
    \/ \E T \in NativeTypes, index \in 0..Argc : GetTensor(T, index)
    \/ \E s \in WIds : MoveConstruct(s)
    \/ \E w \in WIds : PassAsResult(w)
    \/ \E w \in WIds : Destroy(w)
    \/ \E s \in WIds, ok \in BOOLEAN : Clone(s, ok)

Spec == Init /\ [][Next]_vars

\* element access on wrapped, constructed and cloned buffers
NextData ==
    \/ \E T \in CtorTypes, init \in Values : ConstructFill(T, init, <<2>>, TRUE)
    \/ \E T \in NativeTypes, index \in 0..(Argc - 1) : GetTensor(T, index)
    \/ \E s \in WIds : Clone(s, TRUE)
    \/ \E w \in WIds, i \in 0..1, v \in Values : Write(w, i, v)
    \/ \E w \in WIds : Destroy(w)

SpecData == Init /\ [][NextData]_vars

\* holders of a handle passed with the Shared convention
NextShared ==
    \/ \E T \in NativeTypes, index \in 0..(Argc - 1) : WrapShared(T, index)
    \/ \E s \in WIds : CopyShared(s)
    \/ \E w \in WIds : DestroyShared(w)
    \/ \E T \in NativeTypes, index \in 0..Argc : GetTensor(T, index)
    \/ \E w \in WIds : PassAsResult(w)
    \/ \E w \in WIds : Destroy(w)

SpecShared == Init /\ [][NextShared]_vars

\* dimension lists of the shape checks: valid ones (the last has the largest
\* product a mint holds) and ones with an entry that is not positive
ShapeDims == {<<2>>, <<2, 2>>, <<MINT_MAX>>, <<0>>, <<2, 0>>, <<-1, 2>>}

\* element ranges of the shape checks
ShapeRanges == {<<1>>, <<0, 1>>, <<0, 1, 0, 0>>}

\* the ranks of the shapes built
Ranks == {Len(dims) : dims \in ShapeDims}

\* coordinate tuples of a given rank, out-of-bounds ones included
Coords(rank) == [1..rank -> -1..MaxCoord]

\* buffers constructed from dimensions, read by coordinates and destroyed
NextShape ==
    \/ \E T \in CtorTypes, init \in Values, dims \in ShapeDims, ok \in BOOLEAN :
          ConstructFill(T, init, dims, ok)
    \/ \E T \in CtorTypes, elems \in ShapeRanges, dims \in ShapeDims,
          ok \in BOOLEAN : ConstructRange(T, elems, dims, ok)
    \/ \E w \in WIds, rank \in Ranks : \E indices \in Coords(rank) :
          Element(w, indices)
    \/ \E w \in WIds : Destroy(w)

SpecShape == Init /\ [][NextShape]_vars

\* dimension lists whose product is, or is not, a mint
OverflowDims == {<<2>>, <<MINT_MAX, 2>>}

\* buffers constructed from dimensions whose product overflows
NextOverflow ==
    \/ \E T \in CtorTypes, dims \in OverflowDims, ok \in BOOLEAN :
          ConstructFill(T, 1, dims, ok)
    \/ \E T \in CtorTypes, elems \in RangeSet, dims \in OverflowDims,
          ok \in BOOLEAN : ConstructRange(T, elems, dims, ok)
    \/ \E w \in WIds : Destroy(w)

SpecOverflow == Init /\ [][NextOverflow]_vars

\* a library whose functions may run before WolframLibrary_initialize
NextNoLibData ==
    \/ setLibraryData
    \/ MArgumentManagerCtor
    \/ \E T \in CtorTypes, dims \in CtorDims, ok \in BOOLEAN :
          ConstructFill(T, 1, dims, ok)
    \/ \E T \in CtorTypes, elems \in RangeSet, ok \in BOOLEAN :
          ConstructRange(T, elems, <<2>>, ok)
    \/ \E T \in NativeTypes, index \in 0..Argc : GetTensor(T, index)
    \/ \E w \in WIds : Destroy(w)

SpecNoLibData == InitNoLibData /\ [][NextNoLibData]_vars

\* library functions that dispatch on the element type of their argument
NextDispatch ==
    \/ \E index \in 0..Argc : OperateOnTensor(index)
    \/ \E index \in 0..Argc : OperateOnRawArray(index)
    \/ \E index \in 0..Argc : OperateOnImage(index)
    \/ \E w \in WIds : PassAsResult(w)
    \/ \E w \in WIds : Destroy(w)

SpecDispatch == InitDispatch /\ [][NextDispatch]_vars

\* library functions that read their arguments by index
NextArgs ==
    \/ MArgumentManagerCtor
    \/ \E get \in ScalarGetters, index \in Indices : GetScalar(get, index)
    \/ \E variant \in Variants, index \in Indices : GetType(variant, index)
    \/ \E index \in Indices : GetString(index)
    \/ \E index \in Indices, text \in Texts : ModifyString(index, text)
    \/ \E T \in NativeTypes, index \in Indices : GetTensor(T, index)
    \/ \E index \in Indices : OperateOnTensor(index)
    \/ \E index \in Indices : OperateOnRawArray(index)
    \/ \E index \in Indices : OperateOnImage(index)

SpecArgs == InitArgs /\ [][NextArgs]_vars

\* library functions with scalar and text arguments and an integer result
NextMint ==
    \/ MArgumentManagerCtor
    \/ \E get \in ScalarGetters, index \in Indices : GetScalar(get, index)
    \/ \E index \in Indices : GetString(index)
    \/ \E index \in Indices, text \in Texts : ModifyString(index, text)
    \/ \E result \in Results : SetMintAndCheck(result)

SpecMint == Init /\ [][NextMint]_vars

\* buffers constructed from dimensions and handed to the host as the result
NextRoundTrip ==
    \/ \E T \in CtorTypes, init \in Values, dims \in ShapeDims, ok \in BOOLEAN :
          ConstructFill(T, init, dims, ok)
    \/ \E w \in WIds : PassAsResult(w)
    \/ \E w \in WIds : Destroy(w)

SpecRoundTrip == Init /\ [][NextRoundTrip]_vars

\* a paclet that registers its errors and whose functions throw
NextErrors ==
    \/ \E errorData \in ErrorStringData : Set(errorData)
    \/ \E errs \in ErrorLists : RegisterPacletErrors(errs)
    \/ \E thrown \in Thrown : LibraryFunction(thrown)

SpecErrors == Init /\ [][NextErrors]_vars

(* ============================== properties ============================ *)
NoLiveWrapper == \A w \in WIds : ~Live(w)

\* handles allocated by native code (by a constructor or by clone)
NativeAllocated == {h \in Handles : host[h].origin = "native"}

(* C1: destroying a wrapper calls the free hook exactly once, on the       *)
(* wrapper's handle, when the wrapper is Owned at that moment, and calls   *)
(* no release hook (free or disown) when it is NotOwned.                   *)
C1_DestroyFreesIffOwned ==
    [][last'.op = "destroy" =>
         LET w == last'.w
             h == wr[w].internalMT
         IN /\ disownCalls' = disownCalls
            /\ IF wr[w].arrayOwnerQ
               THEN freeCalls' = [freeCalls EXCEPT ![h] = @ + 1]
               ELSE freeCalls' = freeCalls]_vars

\* an Owned wrapper has just been destroyed and its handle was freed once
C1_Witness ==
    /\ last.op = "destroy"
    /\ last.h # NULL
    /\ freeCalls[last.h] = 1

(* C2: no handle (nullptr included) is ever passed to the free hook more   *)
(* than once, and a handle that was written to the output slot is not      *)
(* freed afterwards.                                                       *)
C2_NoDoubleFree ==
    [][/\ \A h \in 0..MaxHandles : freeCalls'[h] <= 1
       /\ \A h \in resLog : freeCalls'[h] = freeCalls[h]]_vars

\* the call is over: a native handle sits in the output slot, another
\* handle was freed, all wrappers are gone
C2_Witness ==
    /\ NoLiveWrapper
    /\ res \in NativeAllocated
    /\ \E h \in Handles : freeCalls[h] = 1
    /\ \E w \in WIds : wr[w].st = "dead"

(* C3: once every wrapper has been destroyed, every handle allocated by    *)
(* native code has been freed exactly once or is the handle in the output  *)
(* slot.                                                                   *)
C3_NoLeak ==
    NoLiveWrapper =>
        \A h \in NativeAllocated : freeCalls[h] = 1 \/ res = h

(* C4: moving an Owned buffer b1 into b2 leaves b1 with a null handle and  *)
(* NotOwned, gives b2 the handle of b1 and makes it Owned, and calls no    *)
(* hook; destroying a moved-from wrapper (null handle) releases nothing,   *)
(* destroying an Owned wrapper brings the free count of its handle to one. *)
C4_MoveTransfersOwnership ==
    [][/\ (last'.op = "move" /\ wr[last'.src].arrayOwnerQ) =>
             LET b1 == last'.src
                 b2 == last'.w
             IN /\ wr'[b1].internalMT = NULL
                /\ ~wr'[b1].arrayOwnerQ
                /\ wr'[b1].st = "live"
                /\ wr'[b2].internalMT = wr[b1].internalMT
                /\ wr'[b2].arrayOwnerQ
                /\ freeCalls' = freeCalls
       /\ (last'.op = "destroy" /\ wr[last'.w].internalMT = NULL) =>
             freeCalls' = freeCalls
       /\ (last'.op = "destroy" /\ wr[last'.w].arrayOwnerQ) =>
             freeCalls'[wr[last'.w].internalMT] = 1]_vars

\* an Owned buffer has just been moved
C4_Witness ==
    /\ last.op = "move"
    /\ wr[last.w].arrayOwnerQ
    /\ wr[last.w].internalMT # NULL
    /\ wr[last.src].internalMT = NULL

(* C5: passAsResult writes the wrapper's handle into the output slot and   *)
(* leaves the wrapper NotOwned; the handle in the output slot is live and  *)
(* was never freed, whatever is destroyed afterwards.                      *)
C5_PassedHandleStaysValid ==
    [][/\ last'.op = "pass" =>
             /\ res' = wr[last'.w].internalMT
             /\ wr'[last'.w].internalMT = wr[last'.w].internalMT
             /\ ~wr'[last'.w].arrayOwnerQ
       /\ res' # NULL => /\ host'[res'].st = "live"
                         /\ freeCalls'[res'] = 0]_vars

\* the wrapper that was passed as the result has been destroyed and its
\* natively allocated handle is in the output slot
C5_Witness ==
    /\ last.op = "destroy"
    /\ last.h # NULL
    /\ last.h = res
    /\ res \in NativeAllocated
    /\ NoLiveWrapper

(* C6: a successful clone of an Owned or NotOwned buffer yields an Owned   *)
(* buffer with a fresh handle different from the source's, and leaves the  *)
(* source wrapper (handle and ownership flag) unchanged.                   *)
C6_CloneIsOwnedAndFresh ==
    [][(last'.op = "clone" /\ last'.err = "NoError") =>
         LET b == last'.src
             c == last'.w
         IN /\ wr'[c].st = "live"
            /\ wr'[c].arrayOwnerQ
            /\ wr'[c].internalMT # NULL
            /\ wr'[c].internalMT # wr[b].internalMT
            /\ host[wr'[c].internalMT].st = "unalloc"
            /\ \A v \in WIds : wr[v].internalMT # wr'[c].internalMT
            /\ wr'[b] = wr[b]]_vars

\* a buffer wrapped from a host argument (NotOwned) has just been cloned
C6_Witness ==
    /\ last.op = "clone"
    /\ last.err = "NoError"
    /\ ~wr[last.src].arrayOwnerQ
    /\ wr[last.w].arrayOwnerQ

(* C7: after c = clone(b), a write through c leaves the elements of b      *)
(* unchanged and a write through b leaves the elements of c unchanged.     *)
C7_DeepCopyIndependent ==
    [][last'.op = "write" =>
         \A c \in WIds :
            LET b == cloneOf[c] IN
            (b # 0 /\ Live(c) /\ Live(b)) =>
               /\ last'.w = c =>
                    host'[wr[b].internalMT].data = host[wr[b].internalMT].data
               /\ last'.w = b =>
                    host'[wr[c].internalMT].data = host[wr[c].internalMT].data]_vars

\* an element of a clone has just been written and now differs from the
\* original
C7_Witness ==
    /\ last.op = "write"
    /\ cloneOf[last.w] # 0
    /\ Live(cloneOf[last.w])
    /\ host[wr[last.w].internalMT].data # host[wr[cloneOf[last.w]].internalMT].data

(* C8: copying a Shared buffer increments the host-side share count and    *)
(* gives two holders of the same handle with a positive share count;       *)
(* destroying a holder whose share count is positive calls disown exactly  *)
(* once; the disown calls a handle received equal the number of destroyed  *)
(* holders, and a handle with Shared holders is never freed.               *)
SharedHolders(h, st) ==
    {w \in WIds : wr[w].st = st /\ wr[w].passing = "Shared" /\ wr[w].internalMT = h}

C8_DisownTotals ==
    \A h \in Handles :
        /\ disownCalls[h] = Cardinality(SharedHolders(h, "dead"))
        /\ SharedHolders(h, "live") # {} => shareCount[h] > 0
        /\ SharedHolders(h, "live") \cup SharedHolders(h, "dead") # {}
              => freeCalls[h] = 0

C9_WrapRecordsHostShape ==
    [][(/\ last'.op = "wrap"
        /\ last'.h # NULL
        /\ type(last'.T) = MTensor_getType(last'.h)) =>
         LET t == last'.h
             w == last'.w
         IN /\ last'.err = "NoError"
            /\ w \in WIds /\ wr[w].st = "unborn" /\ wr'[w].st = "live"
            /\ wr'[w].internalMT = t
            /\ ~wr'[w].arrayOwnerQ
            /\ wr'[w].depth = MTensor_getRank(t)
            /\ wr'[w].dims = MTensor_getDimensions(t)
            /\ wr'[w].flattenedLength = MTensor_getFlattenedLength(t)
            /\ host' = host
            /\ freeCalls' = freeCalls /\ disownCalls' = disownCalls]_vars

\* the rank-2 real tensor of the second argument slot has just been wrapped
C9_Witness ==
    /\ last.op = "wrap"
    /\ last.err = "NoError"
    /\ wr[last.w].depth = 2
    /\ wr[last.w].dims = <<1, 2>>
    /\ wr[last.w].internalMT = Args[2]

(* C10: wrapping a handle whose type tag differs from the tag of the       *)
(* wrapper's element type fails with TensorTypeError; the handle is        *)
(* neither freed nor modified, no wrapper is created and no wrapper owns   *)
(* the handle.                                                             *)
C10_WrapTypeMismatchFails ==
    [][(/\ last'.op = "wrap"
        /\ last'.h # NULL
        /\ type(last'.T) # MTensor_getType(last'.h)) =>
         /\ last'.err = "TensorTypeError"
         /\ host' = host
         /\ freeCalls' = freeCalls /\ disownCalls' = disownCalls
         /\ wr' = wr
         /\ \A w \in WIds : ~(wr'[w].arrayOwnerQ /\ wr'[w].internalMT = last'.h)]_vars

\* a Tensor<double> was requested for the integer tensor of the first slot
C10_Witness ==
    /\ last.op = "wrap"
    /\ last.err = "TensorTypeError"
    /\ last.T = "double"
    /\ last.h = Args[1]
\* every entry is positive
AllPositive(dims) == \A i \in 1..Len(dims) : dims[i] > 0

(* C11: for every dimension list whose entries are all positive and whose  *)
(* product is a mint, construction from the dimensions (the host having    *)
(* allocated the storage) succeeds with size() equal to the product of the *)
(* dimensions and rank() equal to their number.                            *)
C11_ConstructSizeAndRank ==
    [][\A T \in CtorTypes, dims \in ShapeDims :
         (/\ last'.op \in {"construct", "constructRange"}
          /\ AllPositive(dims) /\ Product(dims) \in Mint
          /\ \/ /\ last'.op = "construct"
                /\ \E init \in Values : ConstructFill(T, init, dims, TRUE)
             \/ /\ last'.op = "constructRange"
                /\ \E elems \in ShapeRanges :
                      /\ Len(elems) = Product(dims)
                      /\ ConstructRange(T, elems, dims, TRUE)) =>
              /\ last'.err = "NoError"
              /\ last'.w \in WIds
              /\ wr'[last'.w].st = "live"
              /\ wr'[last'.w].flattenedLength = Product(dims)
              /\ wr'[last'.w].depth = Len(dims)
              /\ wr'[last'.w].dims = dims]_vars

\* a buffer of rank 2 and one holding MINT_MAX elements have been constructed
C11_Witness ==
    /\ last.op = "construct" /\ last.err = "NoError"
    /\ \E w \in WIds : /\ Live(w) /\ wr[w].dims = <<2, 2>>
                       /\ wr[w].depth = 2 /\ wr[w].flattenedLength = 4
    /\ \E w \in WIds : /\ Live(w) /\ wr[w].dims = <<MINT_MAX>>
                       /\ wr[w].flattenedLength = MINT_MAX

(* C12: construction from a dimension list that has an entry <= 0 fails    *)
(* with DimensionsError, and the step allocates no foreign storage and     *)
(* builds no wrapper.                                                      *)
C12_BadDimensionRejected ==
    [][\A T \in CtorTypes, dims \in ShapeDims, ok \in BOOLEAN :
         (/\ last'.op \in {"construct", "constructRange"}
          /\ ~AllPositive(dims)
          /\ \/ /\ last'.op = "construct"
                /\ \E init \in Values : ConstructFill(T, init, dims, ok)
             \/ /\ last'.op = "constructRange"
                /\ \E elems \in ShapeRanges : ConstructRange(T, elems, dims, ok)) =>
              /\ last'.err = "DimensionsError"
              /\ host' = host
              /\ wr' = wr]_vars

\* a construction was refused for its dimensions while a buffer is alive
C12_Witness ==
    /\ last.op \in {"construct", "constructRange"}
    /\ last.err = "DimensionsError"
    /\ last.h = NULL
    /\ \E w \in WIds : Live(w)

(* C13: while the capability table is not installed, construction from    *)
(* dimensions and wrapping of a handle fail with TensorInitError, the      *)
(* three-argument MArgumentManager constructor fails with                  *)
(* MArgumentInitError, and none of them calls a host hook.                 *)
C13_UninitializedFailsWithInitError ==
    [][(/\ ~libData
        /\ \/ last'.op \in {"construct", "constructRange", "MArgumentManager"}
           \/ last'.op = "wrap" /\ last'.h # NULL) =>
             /\ last'.err = IF last'.op = "MArgumentManager"
                            THEN "MArgumentInitError" ELSE "TensorInitError"
             /\ host' = host /\ wr' = wr
             /\ freeCalls' = freeCalls /\ disownCalls' = disownCalls]_vars

(* C14: construction from dimensions that are all positive but whose       *)
(* product is not a mint fails with DimensionsError, allocating nothing.   *)
C14_OverflowRejected ==
    [][\A T \in CtorTypes, elems \in RangeSet, dims \in OverflowDims,
         ok \in BOOLEAN :
         (/\ AllPositive(dims) /\ Product(dims) \notin Mint
          /\ \/ ConstructFill(T, 1, dims, ok)
             \/ ConstructRange(T, elems, dims, ok)) =>
              /\ last'.err = "DimensionsError"
              /\ host' = host
              /\ wr' = wr]_vars

(* C15: reading an element by coordinates fails with TensorIndexError and  *)
(* returns no value whenever some coordinate is negative or not smaller    *)
(* than the dimension it indexes, for every buffer built and every tuple   *)
(* with one coordinate per dimension.                                      *)
C15_OutOfRangeCoordinateFails ==
    \A w \in WIds : Readable(w) =>
        \A indices \in Coords(wr[w].depth) :
            (\E i \in 1..Len(indices) :
                 indices[i] < 0 \/ indices[i] >= wr[w].dims[i]) =>
                elementAt(w, indices) =
                    {[err |-> "TensorIndexError", ret |-> NoValue]}

\* an element read of a rank-2 buffer was refused
C15_Witness ==
    /\ last.op = "element" /\ last.err = "TensorIndexError"
    /\ last.w \in WIds
    /\ wr[last.w].dims = <<2, 2>>

\* the in-bounds coordinate tuples of a shape
ValidCoords(dims) ==
    {t \in [1..Len(dims) -> 0..MINT_MAX] : \A i \in 1..Len(dims) : t[i] < dims[i]}

\* a comes before b in row-major (lexicographic) order
LexLess(a, b) ==
    \E i \in 1..Len(a) : a[i] < b[i] /\ \A j \in 1..(i - 1) : a[j] = b[j]

\* the position of an in-bounds tuple in the row-major enumeration of a shape
RowMajorRank(dims, t) == Cardinality({u \in ValidCoords(dims) : LexLess(u, t)})

(* C16: right after construct(initialValue, dimensions) every in-bounds    *)
(* coordinate tuple reads initialValue, and right after                    *)
(* construct(elementRange, dimensions) every in-bounds tuple reads the     *)
(* range element at the tuple's row-major position.                        *)
C16_ConstructThenReadRoundTrip ==
    [][\A T \in CtorTypes, dims \in ShapeDims, w \in WIds :
         /\ \A init \in Values :
              (/\ last'.op = "construct"
               /\ last'.err = "NoError" /\ last'.w = w
               /\ ConstructFill(T, init, dims, TRUE)) =>
                  \A t \in ValidCoords(dims) : element(w, t)' = {init}
         /\ \A elems \in ShapeRanges :
              (/\ last'.op = "constructRange"
               /\ last'.err = "NoError" /\ last'.w = w
               /\ ConstructRange(T, elems, dims, TRUE)) =>
                  \A t \in ValidCoords(dims) :
                      element(w, t)' = {elems[RowMajorRank(dims, t) + 1]}]_vars

\* the element (0, 1) of a 2 x 2 buffer built from the range 0, 1, 0, 0 read 1
C16_Witness ==
    /\ last.op = "element" /\ last.err = "NoError" /\ last.ret = 1
    /\ last.w \in WIds
    /\ wr[last.w].dims = <<2, 2>>
    /\ host[wr[last.w].internalMT].data = <<0, 1, 0, 0>>

(* C17: construct(elementRange, dimensions) with valid dimensions fails    *)
(* with TensorNewError and builds no wrapper whenever the number of        *)
(* elements differs from the product of the dimensions, and (the host      *)
(* having allocated the storage) builds an Owned buffer holding the        *)
(* elements when the two are equal.                                        *)
C17_RangeCountMustMatch ==
    [][\A T \in CtorTypes, elems \in ShapeRanges, dims \in ShapeDims,
         ok \in BOOLEAN :
         (/\ last'.op = "constructRange"
          /\ AllPositive(dims) /\ Product(dims) \in Mint
          /\ ConstructRange(T, elems, dims, ok)) =>
              /\ Len(elems) # Product(dims) =>
                    last'.err = "TensorNewError" /\ wr' = wr
              /\ (Len(elems) = Product(dims) /\ ok) =>
                    /\ last'.err = "NoError"
                    /\ last'.w \in WIds /\ last'.h \in Handles
                    /\ wr'[last'.w].st = "live"
                    /\ wr'[last'.w].arrayOwnerQ
                    /\ wr'[last'.w].internalMT = last'.h
                    /\ host'[last'.h].st = "live"
                    /\ host'[last'.h].data = elems]_vars

\* a range of the wrong length was refused after a range of 4 elements had
\* been accepted for a 2 x 2 buffer
C17_Witness ==
    /\ last.op = "constructRange" /\ last.err = "TensorNewError"
    /\ last.h # NULL
    /\ \E w \in WIds : /\ Live(w) /\ wr[w].arrayOwnerQ
                       /\ wr[w].dims = <<2, 2>>
                       /\ host[wr[w].internalMT].data = <<0, 1, 0, 0>>

(* C18: a construct(elementRange, dimensions) that fails leaves no storage *)
(* behind: every handle that is allocated after the step was allocated     *)
(* before it.                                                              *)
C18_FailedRangeFreesStorage ==
    [][(last'.op = "constructRange" /\ last'.err # "NoError") =>
         \A h \in Handles : host'[h].st = "live" => host[h].st = "live"]_vars

\* the name an operateOn step of a variant records
OperateOnName(variant) ==
    CASE variant = "Tensor"   -> "operateOnTensor"
      [] variant = "RawArray" -> "operateOnRawArray"
      [] variant = "Image"    -> "operateOnImage"

\* operateOn<Variant>(index)
OperateOn(variant, index) ==
    CASE variant = "Tensor"   -> OperateOnTensor(index)
      [] variant = "RawArray" -> OperateOnRawArray(index)
      [] variant = "Image"    -> OperateOnImage(index)

(* C19: for each variant and each tag the variant supports, operateOn on a *)
(* slot whose handle carries the tag invokes the operation (one invocation *)
(* per step), instantiated for the one native element type whose tag it    *)
(* is, on a NotOwned wrapper newly built around the handle of that slot.   *)
C19_DispatchExact ==
    [][\A variant \in Variants, index \in 0..(Argc - 1) :
         (/\ OperateOn(variant, index)
          /\ getType(index) \in LegalTags(variant)) =>
              /\ last'.op = OperateOnName(variant)
              /\ last'.err = "NoError"
              /\ typeOf(variant, last'.T) = getType(index)
              /\ \A T \in AllNativeTypes :
                    typeOf(variant, T) = getType(index) => T = last'.T
              /\ last'.w \in WIds
              /\ wr[last'.w].st = "unborn"
              /\ wr'[last'.w].st = "live"
              /\ wr'[last'.w].T = last'.T
              /\ wr'[last'.w].internalMT = Args[index + 1]
              /\ ~wr'[last'.w].arrayOwnerQ
              /\ \A v \in WIds \ {last'.w} : wr'[v] = wr[v]]_vars

\* the operation ran for uint8_t on a raw array tagged unsigned 8-bit
C19_Witness ==
    /\ last.op = "operateOnRawArray" /\ last.err = "NoError"
    /\ last.T = "uint8_t"
    /\ last.h = Args[1]
    /\ host[last.h].type = "MRawArray_Type_Ubit8"
    /\ wr[last.w].internalMT = last.h

(* C20: for every tag outside the set a variant supports, operateOn fails  *)
(* with the variant's argument type error (MArgumentTensorError,           *)
(* MArgumentRawArrayError, MArgumentImageError); the operation is not      *)
(* invoked, no wrapper is built and the output slot is left as it was.     *)
C20_UnsupportedTagFails ==
    [][\A variant \in Variants, index \in 0..(Argc - 1) :
         (/\ OperateOn(variant, index)
          /\ getType(index) \notin LegalTags(variant)) =>
              /\ last'.err = CASE variant = "Tensor"   -> "MArgumentTensorError"
                               [] variant = "RawArray" -> "MArgumentRawArrayError"
                               [] variant = "Image"    -> "MArgumentImageError"
              /\ last'.T = "none" /\ last'.w = 0
              /\ wr' = wr
              /\ res' = res /\ resLog' = resLog
              /\ host' = host]_vars

\* operateOnImage refused an image of an unsupported type while a wrapper
\* built by an earlier dispatch is alive
C20_Witness ==
    /\ last.op = "operateOnImage" /\ last.err = "MArgumentImageError"
    /\ last.h = Args[1]
    /\ host[last.h].type = "MImage_Type_Undef"
    /\ \E w \in WIds : Live(w)

\* an operation of the argument manager that takes the index of a slot
IndexTaking(index) ==
    \/ \E get \in ScalarGetters : GetScalar(get, index)
    \/ \E variant \in Variants : GetType(variant, index)
    \/ GetString(index)
    \/ \E T \in NativeTypes : GetTensor(T, index)
    \/ \E variant \in Variants : OperateOn(variant, index)

(* C21: every operation of the argument manager that takes an index fails  *)
(* with MArgumentIndexError when the index is not below the argument count *)
(* (no slot is read, no handle wrapped, no text copied, no operation       *)
(* invoked), and does not raise MArgumentIndexError when it is below.       *)
C21_IndexChecked ==
    [][\A index \in Indices :
         IndexTaking(index) =>
            IF index >= Argc
            THEN /\ last'.err = "MArgumentIndexError"
                 /\ last'.h = NULL /\ last'.w = 0 /\ last'.ret = NoValue
                 /\ wr' = wr /\ stringArgs' = stringArgs /\ host' = host
            ELSE last'.err # "MArgumentIndexError"]_vars

\* getInteger refused an index past the last slot after a text argument had
\* been read
C21_Witness ==
    /\ last.op = "getInteger" /\ last.err = "MArgumentIndexError"
    /\ stringArgs[0] # NoValue

(* C22: getString(index) copies the host's text into the cache only when   *)
(* the cache holds nothing for index, otherwise it leaves the cache alone;  *)
(* either way it returns the cached string, and the cached string of an     *)
(* index changes only when the library function writes through the          *)
(* reference or a new manager is built.                                     *)
C22_StringCopiedOnce ==
    [][\A index \in 0..(Argc - 1) :
         /\ GetString(index) =>
               /\ stringArgs[index] = NoValue =>
                     stringArgs'[index] = ArgText[index + 1]
               /\ stringArgs[index] # NoValue => stringArgs' = stringArgs
               /\ \A j \in 0..(Argc - 1) \ {index} :
                     stringArgs'[j] = stringArgs[j]
               /\ last'.ret = stringArgs'[index]
         /\ (stringArgs[index] # NoValue /\ stringArgs'[index] # stringArgs[index])
               => last'.op \in {"modifyString", "MArgumentManager"}]_vars

\* getString returned a text the host never stored: the one written through
\* the reference
C22_Witness ==
    /\ last.op = "getString" /\ last.err = "NoError"
    /\ \A i \in 1..Argc : last.ret # ArgText[i]
    /\ \E index \in 0..(Argc - 1) : stringArgs[index] = last.ret

(* C23: a library function returns NoError (0) exactly when its body      *)
(* threw nothing; otherwise it returns the id of the LibraryLinkError       *)
(* thrown, or FunctionError for any other exception.                        *)
C23_NoErrorIffNothingThrown ==
    [][last'.op = "libraryFunction" =>
          /\ last'.ret \in Int
          /\ last'.err = "std::exception" => last'.ret = ErrorCode("FunctionError")
          /\ last'.err \notin {"none", "std::exception"} =>
                /\ last'.err \in Names(errors)
                /\ last'.ret = find(errors, last'.err).id
          /\ last'.ret = 0 <=> last'.err = "none"]_vars

\* the names of the original LibraryLink error codes: the entries of the
\* catalog that received the ids VersionError down to 0
OriginalCodes == {BuiltinErrors[i].name : i \in 1..(VersionError + 1)}

(* C24: the status is 0 on success; it is positive, and at most             *)
(* VersionError, only for the original LibraryLink codes (a thrown          *)
(* VersionError ... TypeError, or FunctionError for an exception that is no *)
(* LibraryLinkError); for every other error it is strictly negative, and    *)
(* every error a paclet registers receives a strictly negative id.          *)
C24_StatusSign ==
    [][/\ last'.op = "libraryFunction" =>
             /\ last'.err = "none" => last'.ret = 0
             /\ last'.err \in OriginalCodes \cup {"std::exception"} =>
                   last'.ret \in 0..VersionError
             /\ last'.err \notin OriginalCodes \cup {"none", "std::exception"} =>
                   last'.ret < 0
       /\ last'.op \in {"set", "registerPacletErrors"} =>
             \A i \in (Len(errors) + 1)..Len(errors') : errors'[i].id < 0]_vars

\* the statement of C24 as the specification words it: no status is positive
C24_NoPositiveStatus ==
    [][last'.op = "libraryFunction" => last'.ret <= 0]_vars

\* the handler of other exceptions returned the positive FunctionError while
\* a paclet's error is registered with a negative id
C24_Witness ==
    /\ last.op = "libraryFunction" /\ last.err = "std::exception"
    /\ last.ret = ErrorCode("FunctionError") /\ last.ret > 0
    /\ \E i \in 1..Len(errors) : errors[i].name = "DataError" /\ errors[i].id < 0

(* C25: two live wrappers hold the same handle only if the host shares     *)
(* that handle (Shared mode), and at most one live wrapper is the owner of  *)
(* any handle.                                                              *)
C25_NoAliasUnlessShared ==
    \A v \in WIds, w \in WIds :
       (/\ v # w /\ Live(v) /\ Live(w)
        /\ wr[v].internalMT # NULL
        /\ wr[v].internalMT = wr[w].internalMT) =>
           /\ shareCount[wr[v].internalMT] > 0
           /\ ~(wr[v].arrayOwnerQ /\ wr[w].arrayOwnerQ)

(* C26: ErrorManager::set with a name that is already registered leaves    *)
(* the catalog and nextErrorId as they were; it succeeds when the message   *)
(* equals the registered one and throws ErrorManagerCreateNameError when it *)
(* differs.  With a new name it appends the error with the id nextErrorId   *)
(* had and decrements nextErrorId by one.                                   *)
C26_SetDuplicateKeepsCounter ==
    [][\A errorData \in ErrorStringData :
         (last'.op = "set" /\ Set(errorData)) =>
            IF errorData.name \in Names(errors)
            THEN /\ errors' = errors
                 /\ nextErrorId' = nextErrorId
                 /\ last'.err =
                       IF find(errors, errorData.name).message = errorData.message
                       THEN "NoError" ELSE "ErrorManagerCreateNameError"
            ELSE /\ errors' = Append(errors, [name |-> errorData.name,
                                              id |-> nextErrorId,
                                              message |-> errorData.message])
                 /\ nextErrorId' = nextErrorId - 1
                 /\ last'.err = "NoError"]_vars

\* set rejected a second message for a name the paclet had registered
C26_Witness ==
    /\ last.op = "set" /\ last.err = "ErrorManagerCreateNameError"
    /\ Len(errors) > Len(BuiltinCatalog)
    /\ nextErrorId = VersionError - Len(BuiltinErrors) - (Len(errors) - Len(BuiltinCatalog))

(* C27: in every state of the catalog the ids strictly decrease in the     *)
(* order of successful registration (so they are pairwise distinct and an   *)
(* id identifies at most one error) and every id is above nextErrorId.      *)
C27_IdsDistinctDecreasing ==
    /\ \A i \in 1..Len(errors), j \in 1..Len(errors) :
          i < j => errors[i].id > errors[j].id
    /\ \A i \in 1..Len(errors) : errors[i].id > nextErrorId
    /\ \A id \in nextErrorId..VersionError :
          Cardinality({i \in 1..Len(errors) : errors[i].id = id}) <= 1

\* registerPacletErrors stopped at a rejected duplicate after two errors of
\* the paclet had been registered; the duplicated built-in entry left a gap
C27_Witness ==
    /\ last.op = "registerPacletErrors"
    /\ last.err = "ErrorManagerCreateNameError"
    /\ Len(errors) = Len(BuiltinCatalog) + 2
    /\ Len(BuiltinCatalog) < Len(BuiltinErrors)

(* C28: when a Tensor constructed from dimensions of rank 2 or more has    *)
(* been passed as the result, the handle in the output slot has the rank    *)
(* and the dimensions the wrapper reports, so wrapping that handle again    *)
(* gives a wrapper of equal rank() and dimensions().                        *)
C28_ShapeRoundTrip ==
    \A w \in WIds :
       (/\ Live(w) /\ res # NULL /\ wr[w].internalMT = res
        /\ res \in NativeAllocated
        /\ wr[w].depth >= 2) =>
           /\ MTensor_getRank(res) = wr[w].depth
           /\ MTensor_getDimensions(res) = wr[w].dims
           /\ Wrapped(wr[w].T, res).depth = wr[w].depth
           /\ Wrapped(wr[w].T, res).dims = wr[w].dims

\* a value brought into the range of mint
Clamp(result) ==
    IF result > MINT_MAX THEN MINT_MAX
    ELSE IF result < MINT_MIN THEN MINT_MIN ELSE result

(* C29: setMintAndCheck(result) returns true exactly when result lies      *)
(* outside [MINT_MIN, MINT_MAX], and writes result clamped to that range    *)
(* into the output slot; MINT_MAX and MINT_MIN themselves are written       *)
(* unchanged and reported as no overflow.                                   *)
C29_OverflowReportedExactly ==
    [][\A result \in Results :
         (last'.op = "setMintAndCheck" /\ SetMintAndCheck(result)) =>
            /\ res' = Clamp(result)
            /\ last'.ret = (result \notin Mint)]_vars

(* C30: moving a NotOwned buffer gives a NotOwned target that holds the    *)
(* source's handle, and releases nothing; whatever is moved, passed as the  *)
(* result and destroyed afterwards, a handle that belongs to the host is    *)
(* never freed.                                                             *)
C30_MovePreservesNotOwned ==
    [][/\ (last'.op = "move" /\ ~wr[last'.src].arrayOwnerQ) =>
             /\ ~wr'[last'.w].arrayOwnerQ
             /\ wr'[last'.w].internalMT = wr[last'.src].internalMT
             /\ freeCalls' = freeCalls
       /\ \A h \in Handles :
             host[h].origin = "host" =>
                /\ freeCalls'[h] = 0
                /\ host'[h] = host[h]]_vars

\* a host argument was wrapped, moved and passed as the result, and the
\* target and then the moved-from source have been destroyed
C30_Witness ==
    /\ last.op = "destroy" /\ last.h = NULL
    /\ res = Args[1]
    /\ host[res].origin = "host" /\ host[res].st = "live"
    /\ freeCalls[res] = 0
    /\ NoLiveWrapper

====
